---- MODULE Spec2Model ----
(***************************************************************************)
(* Model of otimizador-google-fotos.py: the OtimizadorMidia batch engine.  *)
(* One process constructs an OtimizadorMidia and runs processar_todos; the *)
(* worker threads of the two ThreadPoolExecutor phases interleave at the   *)
(* granularity of their accesses to the shared estatisticas dict and to    *)
(* the file system.                                                        *)
(***************************************************************************)
EXTENDS Integers, Sequences, FiniteSets, TLC

VARIABLES
    dicts,         \* the three inner dicts CONFIGURACOES refers to (shared objects)
    config,        \* self.config: category -> reference to an inner dict
    pasta_saida,   \* self.pasta_saida (a directory: sequence of components)
    pasta_backup,  \* self.pasta_backup, <<>> when None
    estatisticas,  \* self.estatisticas
    fs,            \* the file system: path -> content, for the files that exist
    fase,          \* where the main thread is
    imagens,       \* the image sequence procurar_arquivos returned
    videos,        \* the video sequence procurar_arquivos returned
    fila,          \* work items of the running executor not yet taken by a worker
    tarefa,        \* per discovered file: the worker invocation's position and locals
    interrompido,  \* a KeyboardInterrupt was delivered to the main thread
    relatorios,    \* report files written by exibir_estatisticas in this run
    execucao,      \* number of OtimizadorMidia instances constructed so far
    chamador,      \* the caller: how many runs it makes, with which arguments
    hist           \* observation record (what happened), never read by the program

vars == <<dicts, config, pasta_saida, pasta_backup, estatisticas, fs, fase,
          imagens, videos, fila, tarefa, interrompido, relatorios, execucao,
          chamador, hist>>

----------------------------------------------------------------------------
(* Bounds of the model *)

\* os.cpu_count() of the machine, the default of geral.processos
CpuCount == 2
\* how many instances are constructed (runs) in one behaviour
MaxExecucoes == 2
\* how many I/O or codec failures the environment injects in one behaviour
MaxFalhas == 2

----------------------------------------------------------------------------
(* Paths.  A path is [dir, pre, stem, ext, side]: the directory as a       *)
(* sequence of components, and the file name  temp_^pre stem ext side.     *)

None == <<>>

Arq(dir, pre, stem, ext, side) ==
    [dir |-> dir, pre |-> pre, stem |-> stem, ext |-> ext, side |-> side]

\* str.lower() on the extensions the model uses
Lower(e) == IF e = ".JPG" THEN ".jpg" ELSE e

\* Path.suffix: the last dotted component of the name
Suffix(p) == IF p.side = "" THEN p.ext ELSE ".json"

\* Path(f"{p}{ext}") for the two sidecar conventions
ComSidecar(p, sext) == [p EXCEPT !.side = sext]

SidecarExts == <<".json", ".supplemental-metadata.json">>

\* Path.with_suffix(s)
WithSuffix(p, s) == [p EXCEPT !.ext = s]

\* Path.with_name(f"temp_{p.name}")
TempDe(p) == [p EXCEPT !.pre = p.pre + 1]

IsPrefix(s, t) == Len(s) <= Len(t) /\ SubSeq(t, 1, Len(s)) = s

\* p.relative_to(root), as the directory part below root
RelativeTo(p, root) == SubSeq(p.dir, Len(root) + 1, Len(p.dir))

\* root / rel  with the file name of p
Sob(root, p, raiz) == [p EXCEPT !.dir = root \o RelativeTo(p, raiz)]

----------------------------------------------------------------------------
(* Configuration *)

Categorias == {"imagens", "videos", "geral"}

\* CONFIGURACOES: the module-level dict; its values are references to the
\* three inner dict objects.
CONFIGURACOES == [imagens |-> "d_imagens", videos |-> "d_videos", geral |-> "d_geral"]

\* The inner dicts as the module's import leaves them.
DictsPadrao ==
    [d_imagens |-> [qualidade_jpg |-> 85,
                    converter_png_para_jpg |-> FALSE,
                    ignorar_pequenas |-> TRUE,
                    tamanho_minimo_kb |-> 100],
     d_videos  |-> [crf |-> 23,
                    ignorar_pequenos |-> TRUE,
                    tamanho_minimo_mb |-> 5],
     d_geral   |-> [processos |-> CpuCount,
                    manter_originais |-> TRUE,
                    pasta_backup |-> None,
                    extensoes_imagem |-> {".jpg", ".jpeg", ".png", ".webp"},
                    extensoes_video |-> {".mp4", ".mov", ".avi", ".mkv"}]]

\* dict.update(valores)
Update(d, valores) ==
    [k \in DOMAIN d \cup DOMAIN valores |->
        IF k \in DOMAIN valores THEN valores[k] ELSE d[k]]

\* self.config[categoria][opcao]
Cfg(categoria, opcao) == dicts[config[categoria]][opcao]

----------------------------------------------------------------------------
(* The file system the program is started on *)

PastaEntrada == <<"in">>

\* a file's content: who it came from, its byte size, whether it went through
\* an encoder
Conteudo(id, tam, enc) == [id |-> id, tam |-> tam, enc |-> enc]

Unico(p, c) == [x \in {p} |-> c]

a_jpg == Arq(PastaEntrada, 0, "a", ".jpg", "")
p_JPG == Arq(PastaEntrada, 0, "p", ".JPG", "")
b_png == Arq(PastaEntrada, 0, "b", ".png", "")
v_mp4 == Arq(PastaEntrada, 0, "v", ".mp4", "")
w_mp4 == Arq(PastaEntrada, 0, "w", ".mp4", "")
a_webp == Arq(PastaEntrada, 0, "a", ".webp", "")

\* three images (one below the 100 KB threshold, one with both sidecars) and a video
ArvoreFotos ==
    Unico(a_jpg, Conteudo("a", 102400, FALSE))
 @@ Unico(p_JPG, Conteudo("p", 102399, FALSE))
 @@ Unico(b_png, Conteudo("b", 204800, FALSE))
 @@ Unico(ComSidecar(b_png, ".json"), Conteudo("bj", 10, FALSE))
 @@ Unico(ComSidecar(b_png, ".supplemental-metadata.json"), Conteudo("bs", 20, FALSE))
 @@ Unico(v_mp4, Conteudo("v", 5242880, FALSE))

\* one image and two videos (one below the 5 MB threshold, one with a long-form
\* sidecar only); an earlier run left a file at v.mp4's destination in the
\* external output root
ArvoreVideos ==
    Unico(a_jpg, Conteudo("a", 102400, FALSE))
 @@ Unico(v_mp4, Conteudo("v", 5242880, FALSE))
 @@ Unico(ComSidecar(v_mp4, ".supplemental-metadata.json"), Conteudo("vs", 20, FALSE))
 @@ Unico(w_mp4, Conteudo("w", 5242879, FALSE))
 @@ Unico(Arq(<<"out">>, 0, "v", ".mp4", ""), Conteudo("velho", 7, TRUE))

\* no media at all: a stray sidecar
ArvoreVazia ==
    Unico(ComSidecar(a_jpg, ".json"), Conteudo("aj", 10, FALSE))

\* one image
ArvorePequena ==
    Unico(a_jpg, Conteudo("a", 102400, FALSE))

\* two images of the same stem below the 100 KB threshold, one of them tiny
\* and already compressed, and a video below the 5 MB threshold
ArvoreMiudas ==
    Unico(a_jpg, Conteudo("a", 102399, FALSE))
 @@ Unico(a_webp, Conteudo("aw", 1, TRUE))
 @@ Unico(w_mp4, Conteudo("w", 5242879, FALSE))

Entradas == {ArvoreFotos, ArvoreVideos, ArvoreVazia, ArvoreMiudas}

----------------------------------------------------------------------------
(* The config argument of the constructor *)

NomesOverride == {"nenhum", "cli1", "converter", "externo", "ambas"}

\* "nenhum": config=None.  "cli1": what main() builds for -p 1 and the other
\* arguments at their defaults.  "converter": --converter-png --sem-backup -j 50.
\* "externo": -b bak.  "ambas": a caller's dict that lists .jpg and .json as
\* video extensions too, and a group the program does not know.  "tudo": a caller's
\* dict that turns the two ignore-small options off.
Override(nome) ==
    CASE nome = "nenhum" -> <<>>
      [] nome = "cli1" ->
            [imagens |-> [qualidade_jpg |-> 85, converter_png_para_jpg |-> FALSE],
             videos  |-> [crf |-> 23],
             geral   |-> [processos |-> 1, manter_originais |-> TRUE,
                          pasta_backup |-> None]]
      [] nome = "converter" ->
            [imagens |-> [qualidade_jpg |-> 50, converter_png_para_jpg |-> TRUE],
             videos  |-> [crf |-> 23],
             geral   |-> [processos |-> CpuCount, manter_originais |-> FALSE,
                          pasta_backup |-> None]]
      [] nome = "externo" ->
            [imagens |-> [qualidade_jpg |-> 85, converter_png_para_jpg |-> FALSE],
             videos  |-> [crf |-> 23],
             geral   |-> [processos |-> CpuCount, manter_originais |-> TRUE,
                          pasta_backup |-> <<"bak">>]]
      [] nome = "ambas" ->
            [geral  |-> [extensoes_video |-> {".mp4", ".jpg", ".json"}],
             outros |-> [qualquer |-> TRUE]]
      [] nome = "tudo" ->
            [imagens |-> [ignorar_pequenas |-> FALSE],
             videos  |-> [ignorar_pequenos |-> FALSE]]

\* the pasta_saida argument: None (default layout) or an external directory
SaidasArg == {None, <<"out">>}

\* the constructor arguments of a caller that wants the small files optimized
ArgsTudo == {<<<<"out">>, "tudo">>}

\* the constructor arguments of a caller that runs the pipeline repeatedly
ArgsRepetidos == {<<None, "cli1">>, <<<<"out">>, "converter">>, <<<<"out">>, "nenhum">>}

----------------------------------------------------------------------------
(* OtimizadorMidia.__init__ *)

EstatisticasIniciais ==
    [total_arquivos |-> 0, total_imagens |-> 0, total_videos |-> 0,
     imagens_otimizadas |-> 0, videos_otimizados |-> 0,
     arquivos_ignorados |-> 0, erros |-> 0,
     espaco_economizado |-> 0, tamanho_original |-> 0, tamanho_final |-> 0,
     fim |-> 0]

\* What the observer has seen: falhas, the failures injected so far;
\* override, the config argument of the current instance; iniciados, how often
\* each file's transform was started; resultado, how each file ended; causa,
\* what made a file's transform fail;
\* escritos, the files whose worker wrote a destination or temp file;
\* em_voo, the transcodes running when the interrupt came; apos, the files
\* whose transform was started after the interrupt; sidecar, the files one of
\* whose sidecar copies failed; somas, the sizes
\* of the files recorded as optimized; anterior, the previous run.
SemAnterior == [houve |-> FALSE]

HistInicial ==
    [falhas |-> 0, override |-> "nenhum",
     iniciados |-> <<>>, resultado |-> <<>>, causa |-> <<>>,
     escritos |-> {}, em_voo |-> {}, apos |-> {}, sidecar |-> {},
     somas |-> [o |-> 0, f |-> 0], anterior |-> SemAnterior]

\* lines 81-84: for each known category of the argument, update the inner
\* dict self.config[categoria] refers to, in place
DictsApos(d, cfg, valores) ==
    [r \in DOMAIN d |->
        IF \E c \in DOMAIN valores : c \in DOMAIN cfg /\ cfg[c] = r
        THEN Update(d[r], valores[CHOOSE c \in DOMAIN valores :
                                      c \in DOMAIN cfg /\ cfg[c] = r])
        ELSE d[r]]

\* lines 86-90
PastaBackupDe(geral) ==
    IF geral.manter_originais
    THEN IF geral.pasta_backup # None THEN geral.pasta_backup
         ELSE PastaEntrada \o <<"originais">>
    ELSE None

Construir(saida, nome) ==
    /\ fase = "inicio"
    /\ <<saida, nome>> \in chamador.args
    /\ pasta_saida' = IF saida # None THEN saida ELSE PastaEntrada \o <<"otimizados">>
    /\ config' = CONFIGURACOES
    /\ dicts' = DictsApos(dicts, CONFIGURACOES, Override(nome))
    /\ pasta_backup' = PastaBackupDe(dicts'[CONFIGURACOES["geral"]])
    /\ estatisticas' = EstatisticasIniciais
    /\ execucao' = execucao + 1
    /\ hist' = [hist EXCEPT !.override = nome]
    /\ fase' = "construido"
    /\ UNCHANGED <<fs, imagens, videos, fila, tarefa, interrompido, relatorios,
                   chamador>>

----------------------------------------------------------------------------
(* procurar_arquivos *)

\* the order in which rglob yields the files of a directory tree: fixed for a
\* given tree
RECURSIVE EmOrdem(_)
EmOrdem(S) ==
    IF S = {} THEN <<>>
    ELSE LET x == CHOOSE y \in S : TRUE IN <<x>> \o EmOrdem(S \ {x})

\* line 147-148: the regular files under pasta_entrada
Rglob(arvore) == EmOrdem({p \in DOMAIN arvore : IsPrefix(PastaEntrada, p.dir)})

\* line 149
EhSidecar(p) == Lower(Suffix(p)) \in {".json", ".metadata"}

ExtsLower(S) == {Lower(x) : x \in S}

\* as EhImagem, without the lower() of line 152
EhImagem_SemLower(p) ==
    /\ ~EhSidecar(p)
    /\ Suffix(p) \in ExtsLower(Cfg("geral", "extensoes_imagem"))

\* lines 152-156
EhImagem(p) ==
    /\ ~EhSidecar(p)
    /\ Lower(Suffix(p)) \in ExtsLower(Cfg("geral", "extensoes_imagem"))

\* as EhVideo, with the elif of line 155 written as an if
EhVideo_SemElif(p) ==
    /\ ~EhSidecar(p)
    /\ Lower(Suffix(p)) \in ExtsLower(Cfg("geral", "extensoes_video"))

EhVideo(p) ==
    /\ ~EhSidecar(p)
    /\ ~(Lower(Suffix(p)) \in ExtsLower(Cfg("geral", "extensoes_imagem")))
    /\ Lower(Suffix(p)) \in ExtsLower(Cfg("geral", "extensoes_video"))

TarefaNova(p) ==
    [pc |-> "pendente", saida |-> p, to |-> 0, tn |-> 0,
     lo |-> 0, lf |-> 0, le |-> 0, ln |-> 0]

\* processar_todos, lines 329-340: discovery, the empty case, the start of the
\* first phase that has files
ProcurarArquivos ==
    /\ fase = "construido"
    /\ LET imgs == SelectSeq(Rglob(fs), EhImagem)
           vids == SelectSeq(Rglob(fs), EhVideo)
           total == Len(imgs) + Len(vids)
       IN /\ imagens' = imgs
          /\ videos' = vids
          /\ estatisticas' = [estatisticas EXCEPT
                                !.total_imagens = Len(imgs),
                                !.total_videos = Len(vids),
                                !.total_arquivos = Len(imgs) + Len(vids)]
          /\ tarefa' = [p \in {imgs[i] : i \in 1..Len(imgs)}
                                \cup {vids[i] : i \in 1..Len(vids)} |-> TarefaNova(p)]
          /\ fase' = IF total = 0 THEN "retornou" ELSE "imagens"
          /\ fila' = imgs
          /\ hist' = [hist EXCEPT
                        !.iniciados = [p \in DOMAIN tarefa' |-> 0],
                        !.resultado = [p \in DOMAIN tarefa' |-> "nenhum"],
                        !.causa = [p \in DOMAIN tarefa' |-> "nenhuma"]]
    /\ UNCHANGED <<dicts, config, pasta_saida, pasta_backup, fs, interrompido,
                   relatorios, execucao, chamador>>

----------------------------------------------------------------------------
(* File operations *)

\* the file system with c written at p
Escrever(arq, p, c) == [x \in DOMAIN arq \cup {p} |-> IF x = p THEN c ELSE arq[x]]

\* the file system with p unlinked
Remover(arq, p) == [x \in DOMAIN arq \ {p} |-> arq[x]]

\* what the image codec / the transcoder writes for a source content: a fixed
\* function of the source (a fresh source shrinks, an already encoded one grows)
Codificar(c) ==
    [c EXCEPT !.tam = IF c.enc THEN c.tam + 1024 ELSE c.tam \div 2, !.enc = TRUE]

\* as CopiarMetadataJson, knowing the short-form convention only
CopiarMetadataJson_SoJson(arq, origem, destino, n) ==
    IF n >= 1 /\ ComSidecar(origem, ".json") \in DOMAIN arq
    THEN Escrever(arq, ComSidecar(destino, ".json"), arq[ComSidecar(origem, ".json")])
    ELSE arq

\* copiar_metadata_json(origem, destino) after n iterations of its loop ran to
\* their end: n = Len(SidecarExts) is the call without exception; with n
\* smaller, the copy of convention n+1 raised and the handler swallowed it
CopiarMetadataJson(arq, origem, destino, n) ==
    LET feitas == {i \in 1..n : ComSidecar(origem, SidecarExts[i]) \in DOMAIN arq}
        novos  == {ComSidecar(destino, SidecarExts[i]) : i \in feitas}
    IN [x \in DOMAIN arq \cup novos |->
          IF x \in novos
          THEN arq[ComSidecar(origem, x.side)]
          ELSE arq[x]]

\* the iterations of copiar_metadata_json in which shutil.copy2 is called, less one
PontosDeFalha(arq, origem) ==
    {n \in 0..(Len(SidecarExts) - 1) :
        ComSidecar(origem, SidecarExts[n + 1]) \in DOMAIN arq}

\* the outcomes of one copiar_metadata_json call the environment allows
Copias(arq, origem) ==
    {Len(SidecarExts)} \cup
    (IF hist.falhas < MaxFalhas THEN PontosDeFalha(arq, origem) ELSE {})

PodeFalhar == hist.falhas < MaxFalhas

\* as AposSidecars, were the exception of the copy to reach the caller
AposSidecars_Propaga(n, pc) == IF n < Len(SidecarExts) THEN "gravar_erro" ELSE pc

\* lines 132 and 138-139: the handler inside copiar_metadata_json swallows the
\* exception, so the caller goes on to pc however far the copy got
AposSidecars(n, pc) == pc

----------------------------------------------------------------------------
(* The worker invocations: otimizar_imagem and otimizar_video *)

EmAndamento == {p \in DOMAIN tarefa : tarefa[p].pc \notin {"pendente", "fim"}}

\* lines 171-172 and 240-241
Pequeno(to) ==
    IF fase = "imagens"
    THEN /\ Cfg("imagens", "ignorar_pequenas")
         /\ to < Cfg("imagens", "tamanho_minimo_kb") * 1024
    ELSE /\ Cfg("videos", "ignorar_pequenos")
         /\ to < Cfg("videos", "tamanho_minimo_mb") * 1024 * 1024

\* lines 178-179 and 247-248
CaminhoSaida(f) == Sob(pasta_saida, f, PastaEntrada)

\* lines 183 and 252
CaminhoBackup(f) == Sob(pasta_backup, f, PastaEntrada)

\* as SaidaImagem, without the with_suffix('.jpg') of lines 202 and 211
SaidaImagem_SemTroca(f) == CaminhoSaida(f)

\* lines 194-213: the destination after the format decision
SaidaImagem(f) ==
    LET formato == Lower(Suffix(f))
    IN IF formato \in {".jpg", ".jpeg"} THEN CaminhoSaida(f)
       ELSE IF formato = ".png"
            THEN IF Cfg("imagens", "converter_png_para_jpg")
                 THEN WithSuffix(CaminhoSaida(f), ".jpg")
                 ELSE CaminhoSaida(f)
            ELSE WithSuffix(CaminhoSaida(f), ".jpg")

\* as CopiarOriginal, with the shutil.copy2 of the original left out
CopiarOriginal_SoSidecars(arq, f, n) ==
    CopiarMetadataJson(arq, f, CaminhoBackup(f), n)

\* lines 182-186 and 251-255: the original and its sidecars go to the backup tree
CopiarOriginal(arq, f, n) ==
    CopiarMetadataJson(Escrever(arq, CaminhoBackup(f), arq[f]), f, CaminhoBackup(f), n)

\* the except clauses of lines 231-233 and 323-325, up to the read of
\* self.estatisticas["erros"]
ParaErro(f) ==
    tarefa' = [tarefa EXCEPT ![f].pc = "gravar_erro", ![f].lo = estatisticas.erros]

\* as WorkerLivre, for an executor that starts a thread for every work item
WorkerLivre_SemLimite == TRUE

\* lines 337, 339 and 349: ThreadPoolExecutor(max_workers=processos) runs a
\* work item only on one of its max_workers threads
WorkerLivre == Cardinality(EmAndamento) < Cfg("geral", "processos")

\* the files whose transform was started after the interrupt, f's start included
Apos(f) == IF interrompido THEN hist.apos \cup {f} ELSE hist.apos

\* A worker thread takes the next work item and runs the transform up to the
\* backup copy (lines 169-186, 238-255).  copia: whether shutil.copy2 of the
\* original succeeds; n: how far copiar_metadata_json gets.
Iniciar(f, copia, n) ==
    /\ fase \in {"imagens", "videos"}
    /\ fila # <<>>
    /\ f = Head(fila)
    /\ WorkerLivre
    /\ fila' = Tail(fila)
    /\ IF f \notin DOMAIN fs
       THEN /\ ParaErro(f)
            /\ copia /\ n = Len(SidecarExts)
            /\ fs' = fs
            /\ hist' = [hist EXCEPT !.iniciados[f] = @ + 1, !.causa[f] = "origem",
                                    !.apos = Apos(f)]
       ELSE IF Pequeno(fs[f].tam)
       THEN /\ tarefa' = [tarefa EXCEPT ![f].pc = "gravar_ign",
                              ![f].to = fs[f].tam,
                              ![f].lo = estatisticas.arquivos_ignorados]
            /\ copia /\ n = Len(SidecarExts)
            /\ fs' = fs
            /\ hist' = [hist EXCEPT !.iniciados[f] = @ + 1, !.apos = Apos(f)]
       ELSE IF pasta_backup = None
       THEN /\ tarefa' = [tarefa EXCEPT
                              ![f].pc = IF fase = "imagens" THEN "salvar" ELSE "ffmpeg",
                              ![f].to = fs[f].tam,
                              ![f].saida = CaminhoSaida(f)]
            /\ copia /\ n = Len(SidecarExts)
            /\ fs' = fs
            /\ hist' = [hist EXCEPT !.iniciados[f] = @ + 1, !.apos = Apos(f)]
       ELSE IF copia
       THEN /\ n \in Copias(fs, f)
            /\ tarefa' = [tarefa EXCEPT
                              ![f].pc = AposSidecars(n, IF fase = "imagens"
                                                        THEN "salvar" ELSE "ffmpeg"),
                              ![f].to = fs[f].tam,
                              ![f].saida = CaminhoSaida(f)]
            /\ fs' = CopiarOriginal(fs, f, n)
            /\ hist' = [hist EXCEPT !.iniciados[f] = @ + 1, !.apos = Apos(f),
                                    !.sidecar = IF n < Len(SidecarExts) THEN @ \cup {f} ELSE @,
                                    !.falhas = IF n < Len(SidecarExts) THEN @ + 1 ELSE @]
       ELSE /\ PodeFalhar
            /\ n = Len(SidecarExts)
            /\ ParaErro(f)
            /\ fs' = fs
            /\ hist' = [hist EXCEPT !.iniciados[f] = @ + 1, !.falhas = @ + 1,
                                    !.causa[f] = "backup", !.apos = Apos(f)]
    /\ UNCHANGED <<dicts, config, pasta_saida, pasta_backup, estatisticas, fase,
                   imagens, videos, interrompido, relatorios, execucao, chamador>>

\* otimizar_imagem, lines 188-223: decode, encode to the destination, copy the
\* sidecars, stat the result and read the first total.  ok: whether the codec
\* succeeds.
Salvar(f, ok, n) ==
    /\ f \in DOMAIN tarefa
    /\ tarefa[f].pc = "salvar"
    /\ IF ok /\ f \in DOMAIN fs
       THEN /\ n \in Copias(fs, f)
            /\ fs' = CopiarMetadataJson(Escrever(fs, SaidaImagem(f), Codificar(fs[f])),
                                        f, SaidaImagem(f), n)
            /\ tarefa' = [tarefa EXCEPT ![f].pc = AposSidecars(n, "ler_f"),
                              ![f].saida = SaidaImagem(f),
                              ![f].tn = fs'[SaidaImagem(f)].tam,
                              ![f].lo = estatisticas.tamanho_original]
            /\ hist' = [hist EXCEPT
                          !.escritos = @ \cup {f},
                          !.sidecar = IF n < Len(SidecarExts) THEN @ \cup {f} ELSE @,
                          !.falhas = IF n < Len(SidecarExts) THEN @ + 1 ELSE @]
       ELSE /\ ~ok
            /\ PodeFalhar \/ f \notin DOMAIN fs
            /\ n = Len(SidecarExts)
            /\ ParaErro(f)
            /\ fs' = fs
            /\ hist' = [hist EXCEPT !.falhas = @ + 1, !.causa[f] = "codec"]
    /\ UNCHANGED <<dicts, config, pasta_saida, pasta_backup, estatisticas, fase,
                   imagens, videos, fila, interrompido, relatorios, execucao, chamador>>

\* otimizar_video, lines 258-291 and 303-307: the transcoder runs to its end.
\* r: "ok" (temp output written), "vazio" (exit 0 with an empty temp output),
\* "nada" (exit 0 without a temp output), "erro" (ffmpeg.Error: the handler
\* unlinks the temp output if there is one and re-raises).
Ffmpeg(f, r) ==
    /\ f \in DOMAIN tarefa
    /\ tarefa[f].pc = "ffmpeg"
    /\ LET temp == TempDe(tarefa[f].saida)
       IN IF r = "erro" \/ f \notin DOMAIN fs
          THEN /\ r = "erro"
               /\ PodeFalhar \/ f \notin DOMAIN fs
               /\ fs' = Remover(fs, temp)
               /\ ParaErro(f)
               /\ hist' = [hist EXCEPT !.falhas = @ + 1, !.causa[f] = "ffmpeg"]
          ELSE /\ r \in {"ok", "vazio", "nada"}
               /\ r # "ok" => PodeFalhar
               /\ fs' = CASE r = "ok" -> Escrever(fs, temp, Codificar(fs[f]))
                          [] r = "vazio" ->
                                Escrever(fs, temp, [Codificar(fs[f]) EXCEPT !.tam = 0])
                          [] r = "nada" -> fs
               /\ tarefa' = [tarefa EXCEPT ![f].pc = "mover"]
               /\ hist' = [hist EXCEPT
                             !.escritos = IF r = "nada" THEN @ ELSE @ \cup {f},
                             !.falhas = IF r # "ok" THEN @ + 1 ELSE @]
    /\ UNCHANGED <<dicts, config, pasta_saida, pasta_backup, estatisticas, fase,
                   imagens, videos, fila, interrompido, relatorios, execucao, chamador>>

\* otimizar_video, lines 294-315: the check of the temp output, the unlink of
\* a file already at the destination, the rename, the sidecar copy, the stat
\* and the read of the first total.  r: "ok", "unlink" (caminho_saida.unlink
\* raises), "rename" (temp_output.rename raises).
Mover(f, r, n) ==
    /\ f \in DOMAIN tarefa
    /\ tarefa[f].pc = "mover"
    /\ LET saida == tarefa[f].saida
           temp  == TempDe(saida)
       IN IF temp \notin DOMAIN fs
          THEN \* line 295: FileNotFoundError, not an ffmpeg.Error
               /\ r = "ok" /\ n = Len(SidecarExts)
               /\ fs' = fs
               /\ ParaErro(f)
               /\ hist' = [hist EXCEPT !.causa[f] = "sem_temp"]
          ELSE IF r = "unlink"
          THEN /\ saida \in DOMAIN fs
               /\ PodeFalhar
               /\ n = Len(SidecarExts)
               /\ fs' = fs
               /\ ParaErro(f)
               /\ hist' = [hist EXCEPT !.falhas = @ + 1, !.causa[f] = "unlink"]
          ELSE IF r = "rename"
          THEN /\ PodeFalhar
               /\ n = Len(SidecarExts)
               /\ fs' = Remover(fs, saida)
               /\ ParaErro(f)
               /\ hist' = [hist EXCEPT !.falhas = @ + 1, !.causa[f] = "rename"]
          ELSE /\ r = "ok"
               /\ n \in Copias(fs, f)
               /\ fs' = CopiarMetadataJson(
                            Remover(Escrever(fs, saida, fs[temp]), temp), f, saida, n)
               /\ tarefa' = [tarefa EXCEPT ![f].pc = AposSidecars(n, "ler_f"),
                                 ![f].tn = fs[temp].tam,
                                 ![f].lo = estatisticas.tamanho_original]
               /\ hist' = [hist EXCEPT
                             !.sidecar = IF n < Len(SidecarExts) THEN @ \cup {f} ELSE @,
                             !.falhas = IF n < Len(SidecarExts) THEN @ + 1 ELSE @]
    /\ UNCHANGED <<dicts, config, pasta_saida, pasta_backup, estatisticas, fase,
                   imagens, videos, fila, interrompido, relatorios, execucao, chamador>>

\* lines 224 and 316: the read of self.estatisticas["tamanho_final"]
LerFinal(f) ==
    /\ f \in DOMAIN tarefa
    /\ tarefa[f].pc = "ler_f"
    /\ tarefa' = [tarefa EXCEPT ![f].pc = "ler_e", ![f].lf = estatisticas.tamanho_final]
    /\ UNCHANGED <<dicts, config, pasta_saida, pasta_backup, estatisticas, fs, fase,
                   imagens, videos, fila, interrompido, relatorios, execucao, chamador, hist>>

\* lines 225 and 317: the read of self.estatisticas["espaco_economizado"]
LerEconomia(f) ==
    /\ f \in DOMAIN tarefa
    /\ tarefa[f].pc = "ler_e"
    /\ tarefa' = [tarefa EXCEPT ![f].pc = "ler_n",
                      ![f].le = estatisticas.espaco_economizado]
    /\ UNCHANGED <<dicts, config, pasta_saida, pasta_backup, estatisticas, fs, fase,
                   imagens, videos, fila, interrompido, relatorios, execucao, chamador, hist>>

\* lines 226 and 318: the read of the optimized counter of the phase
LerContador(f) ==
    /\ f \in DOMAIN tarefa
    /\ tarefa[f].pc = "ler_n"
    /\ tarefa' = [tarefa EXCEPT ![f].pc = "gravar",
                      ![f].ln = IF fase = "imagens"
                                THEN estatisticas.imagens_otimizadas
                                ELSE estatisticas.videos_otimizados]
    /\ UNCHANGED <<dicts, config, pasta_saida, pasta_backup, estatisticas, fs, fase,
                   imagens, videos, fila, interrompido, relatorios, execucao, chamador, hist>>

\* the worker invocation has returned: its locals are gone
Terminada(t) ==
    [t EXCEPT !.pc = "fim", !.to = 0, !.tn = 0, !.lo = 0, !.lf = 0, !.le = 0, !.ln = 0]

\* lines 222-227 and 314-319: self.estatisticas.update(...) with the values
\* computed from the reads above
Gravar(f) ==
    /\ f \in DOMAIN tarefa
    /\ tarefa[f].pc = "gravar"
    /\ LET t == tarefa[f]
           economia == t.to - t.tn
       IN estatisticas' =
            IF fase = "imagens"
            THEN [estatisticas EXCEPT
                    !.tamanho_original = t.lo + t.to,
                    !.tamanho_final = t.lf + t.tn,
                    !.espaco_economizado = t.le + economia,
                    !.imagens_otimizadas = t.ln + 1]
            ELSE [estatisticas EXCEPT
                    !.tamanho_original = t.lo + t.to,
                    !.tamanho_final = t.lf + t.tn,
                    !.espaco_economizado = t.le + economia,
                    !.videos_otimizados = t.ln + 1]
    /\ tarefa' = [tarefa EXCEPT ![f] = Terminada(@)]
    /\ hist' = [hist EXCEPT !.resultado[f] = "otimizado",
                            !.somas = [o |-> @.o + tarefa[f].to, f |-> @.f + tarefa[f].tn]]
    /\ UNCHANGED <<dicts, config, pasta_saida, pasta_backup, fs, fase,
                   imagens, videos, fila, interrompido, relatorios, execucao, chamador>>

\* lines 174 and 243: the store of self.estatisticas["arquivos_ignorados"] += 1
GravarIgnorado(f) ==
    /\ f \in DOMAIN tarefa
    /\ tarefa[f].pc = "gravar_ign"
    /\ estatisticas' = [estatisticas EXCEPT !.arquivos_ignorados = tarefa[f].lo + 1]
    /\ tarefa' = [tarefa EXCEPT ![f] = Terminada(@)]
    /\ hist' = [hist EXCEPT !.resultado[f] = "ignorado"]
    /\ UNCHANGED <<dicts, config, pasta_saida, pasta_backup, fs, fase,
                   imagens, videos, fila, interrompido, relatorios, execucao, chamador>>

\* lines 233 and 325: the store of self.estatisticas["erros"] += 1
GravarErro(f) ==
    /\ f \in DOMAIN tarefa
    /\ tarefa[f].pc = "gravar_erro"
    /\ estatisticas' = [estatisticas EXCEPT !.erros = tarefa[f].lo + 1]
    /\ tarefa' = [tarefa EXCEPT ![f] = Terminada(@)]
    /\ hist' = [hist EXCEPT !.resultado[f] = "erro"]
    /\ UNCHANGED <<dicts, config, pasta_saida, pasta_backup, fs, fase,
                   imagens, videos, fila, interrompido, relatorios, execucao, chamador>>

----------------------------------------------------------------------------
(* The main thread: processar_todos after discovery, and __main__ *)

\* as TodasConcluidas, with an executor that is shut down without waiting
TodasConcluidas_SemEspera == fila = <<>>

\* lines 341-347 and 351-357: list(...) has consumed every result and the
\* with block's shutdown(wait=True) has returned
TodasConcluidas == fila = <<>> /\ EmAndamento = {}

\* as FimImagens, with the video executor made as soon as the image work
\* items are handed out
FimImagens_SemEspera ==
    /\ fase = "imagens"
    /\ ~interrompido
    /\ fila = <<>>
    /\ fase' = "videos"
    /\ fila' = videos
    /\ UNCHANGED <<dicts, config, pasta_saida, pasta_backup, estatisticas, fs,
                   imagens, videos, tarefa, interrompido, relatorios, execucao, chamador, hist>>

\* lines 341-349: the image executor's with block ends once every work item
\* has finished; the video phase is next
FimImagens ==
    /\ fase = "imagens"
    /\ ~interrompido
    /\ TodasConcluidas
    /\ fase' = "videos"
    /\ fila' = videos
    /\ UNCHANGED <<dicts, config, pasta_saida, pasta_backup, estatisticas, fs,
                   imagens, videos, tarefa, interrompido, relatorios, execucao, chamador, hist>>

----------------------------------------------------------------------------
(* exibir_estatisticas: the numbers of the summary.  A number is the exact  *)
(* fraction [num, den] in lowest terms with den > 0; den = 0 stands for the *)
(* ZeroDivisionError of a division by zero.                                 *)

Abs(x) == IF x < 0 THEN -x ELSE x

RECURSIVE Mdc(_, _)
Mdc(a, b) == IF b = 0 THEN a ELSE Mdc(b, a % b)

\* n / d for d > 0, in lowest terms
Racional(n, d) ==
    LET g == Mdc(Abs(n), d) IN [num |-> n \div g, den |-> d \div g]

\* lines 365-367: x / (1024 * 1024)
EmMB(x) == Racional(x, 1024 * 1024)

\* p / q for q >= 0
Dividir(p, q) ==
    IF q.num = 0 THEN [num |-> p.num, den |-> 0]
    ELSE LET g1 == Mdc(Abs(p.num), q.num)
             g2 == Mdc(p.den, q.den)
         IN Racional((p.num \div g1) * (q.den \div g2),
                     (p.den \div g2) * (q.num \div g1))

\* p * k for an integer k > 0
Vezes(p, k) ==
    IF p.den = 0 THEN p
    ELSE LET g == Mdc(k, p.den) IN Racional(p.num * (k \div g), p.den \div g)

\* as PorcentagemReducao, without the test of line 369
PorcentagemReducao_SemTeste(est) ==
    Vezes(Dividir(EmMB(est.espaco_economizado), EmMB(est.tamanho_original)), 100)

\* lines 365-372
PorcentagemReducao(est) ==
    LET espaco_economizado_mb == EmMB(est.espaco_economizado)
        tamanho_original_mb == EmMB(est.tamanho_original)
    IN IF tamanho_original_mb.num > 0
       THEN Vezes(Dividir(espaco_economizado_mb, tamanho_original_mb), 100)
       ELSE Racional(0, 1)

\* lines 351-360 and exibir_estatisticas: the video executor's with block
\* ends, the end time is stored, the summary printed and the report written.
\* The numbers of the report are those of estatisticas as this step leaves
\* it, and its percentage is PorcentagemReducao of them.
FimVideos ==
    /\ fase = "videos"
    /\ ~interrompido
    /\ TodasConcluidas
    /\ estatisticas' = [estatisticas EXCEPT !.fim = 1]
    /\ relatorios' = relatorios + 1
    /\ fase' = "fim"
    /\ UNCHANGED <<dicts, config, pasta_saida, pasta_backup, fs, imagens, videos,
                   fila, tarefa, interrompido, execucao, chamador, hist>>

\* KeyboardInterrupt in the main thread inside list(tqdm(executor.map(...)))
\* (lines 342-347, 352-357).  cancela: the exception is raised while the main
\* thread waits in executor.map's result iterator, whose finally clause
\* cancels the work items no worker has taken; otherwise it is raised in the
\* progress bar's code and nothing is cancelled.  Either way the with block's
\* exit then waits for the work items that run or remain.
Interromper(cancela) ==
    /\ fase \in {"imagens", "videos"}
    /\ ~interrompido
    /\ interrompido' = TRUE
    /\ fila' = IF cancela THEN <<>> ELSE fila
    /\ hist' = [hist EXCEPT !.em_voo = {p \in EmAndamento : tarefa[p].pc = "ffmpeg"}]
    /\ UNCHANGED <<dicts, config, pasta_saida, pasta_backup, estatisticas, fs, fase,
                   imagens, videos, tarefa, relatorios, execucao, chamador>>

\* lines 480-482: the executor has shut down, the exception reaches __main__,
\* the process exits with code 0
Sair ==
    /\ fase \in {"imagens", "videos"}
    /\ interrompido
    /\ TodasConcluidas
    /\ fase' = "saiu"
    /\ UNCHANGED <<dicts, config, pasta_saida, pasta_backup, estatisticas, fs,
                   imagens, videos, fila, tarefa, interrompido, relatorios, execucao, chamador,
                   hist>>

\* the files of the output tree
Saidas(arq, raiz) == [x \in {p \in DOMAIN arq : IsPrefix(raiz, p.dir)} |-> arq[x]]

\* The caller runs the pipeline again on the same tree.  esvaziar: the output
\* root is emptied first.  processo: a new process (the module is imported
\* again) rather than a second instance in the same process.
NovaExecucao(esvaziar, processo) ==
    /\ fase \in {"fim", "saiu", "retornou"}
    /\ execucao < chamador.execucoes
    /\ fs' = IF esvaziar
             THEN [x \in {p \in DOMAIN fs : ~IsPrefix(pasta_saida, p.dir)} |-> fs[x]]
             ELSE fs
    /\ dicts' = IF processo THEN DictsPadrao ELSE dicts
    /\ fase' = "inicio"
    /\ imagens' = <<>>
    /\ videos' = <<>>
    /\ fila' = <<>>
    /\ tarefa' = <<>>
    /\ interrompido' = FALSE
    /\ relatorios' = 0
    /\ hist' = [HistInicial EXCEPT
                  !.falhas = hist.falhas,
                  !.anterior = [houve |-> TRUE,
                                completa |-> fase = "fim",
                                esvaziada |-> esvaziar,
                                pasta_saida |-> pasta_saida,
                                pasta_backup |-> pasta_backup,
                                dicts |-> dicts,
                                saidas |-> Saidas(fs, pasta_saida)]]
    /\ pasta_saida' = None
    /\ pasta_backup' = None
    /\ estatisticas' = EstatisticasIniciais
    /\ UNCHANGED <<config, execucao, chamador>>

----------------------------------------------------------------------------
(* The specification *)

\* The caller either runs the pipeline once, on any of the trees with any of
\* the arguments or on the tree of small files with the ignore-small options
\* off, or runs it up to MaxExecucoes times on the small tree.
Chamadas ==
    [arvore : Entradas, execucoes : {1}, args : {SaidasArg \X NomesOverride}]
    \cup
    [arvore : {ArvoreMiudas}, execucoes : {1}, args : {ArgsTudo}]
    \cup
    [arvore : {ArvorePequena}, execucoes : {MaxExecucoes}, args : {ArgsRepetidos}]

Init ==
    /\ \E c \in Chamadas :
          /\ fs = c.arvore
          /\ chamador = [execucoes |-> c.execucoes, args |-> c.args]
    /\ dicts = DictsPadrao
    /\ config = CONFIGURACOES
    /\ pasta_saida = None
    /\ pasta_backup = None
    /\ estatisticas = EstatisticasIniciais
    /\ fase = "inicio"
    /\ imagens = <<>>
    /\ videos = <<>>
    /\ fila = <<>>
    /\ tarefa = <<>>
    /\ interrompido = FALSE
    /\ relatorios = 0
    /\ execucao = 0
    /\ hist = HistInicial

Arquivos == DOMAIN tarefa
Niveis == 0..Len(SidecarExts)

Next ==
    \/ \E arg \in chamador.args : Construir(arg[1], arg[2])
    \/ ProcurarArquivos
    \/ \E f \in Arquivos, copia \in BOOLEAN, n \in Niveis : Iniciar(f, copia, n)
    \/ \E f \in Arquivos, ok \in BOOLEAN, n \in Niveis : Salvar(f, ok, n)
    \/ \E f \in Arquivos, r \in {"ok", "vazio", "nada", "erro"} : Ffmpeg(f, r)
    \/ \E f \in Arquivos, r \in {"ok", "unlink", "rename"}, n \in Niveis : Mover(f, r, n)
    \/ \E f \in Arquivos : LerFinal(f)
    \/ \E f \in Arquivos : LerEconomia(f)
    \/ \E f \in Arquivos : LerContador(f)
    \/ \E f \in Arquivos : Gravar(f)
    \/ \E f \in Arquivos : GravarIgnorado(f)
    \/ \E f \in Arquivos : GravarErro(f)
    \/ FimImagens
    \/ FimVideos
    \/ \E cancela \in BOOLEAN : Interromper(cancela)
    \/ Sair
    \/ \E esvaziar \in BOOLEAN, processo \in BOOLEAN : NovaExecucao(esvaziar, processo)

Spec == Init /\ [][Next]_vars

\* The steps of the program's own threads: the worker threads and the main
\* thread are scheduled by the operating system and each keeps running.
Programa ==
    \/ ProcurarArquivos
    \/ \E f \in Arquivos, copia \in BOOLEAN, n \in Niveis : Iniciar(f, copia, n)
    \/ \E f \in Arquivos, ok \in BOOLEAN, n \in Niveis : Salvar(f, ok, n)
    \/ \E f \in Arquivos, r \in {"ok", "vazio", "nada", "erro"} : Ffmpeg(f, r)
    \/ \E f \in Arquivos, r \in {"ok", "unlink", "rename"}, n \in Niveis : Mover(f, r, n)
    \/ \E f \in Arquivos : LerFinal(f)
    \/ \E f \in Arquivos : LerEconomia(f)
    \/ \E f \in Arquivos : LerContador(f)
    \/ \E f \in Arquivos : Gravar(f)
    \/ \E f \in Arquivos : GravarIgnorado(f)
    \/ \E f \in Arquivos : GravarErro(f)
    \/ FimImagens
    \/ FimVideos
    \/ Sair

FairSpec == Spec /\ WF_vars(Programa)

----------------------------------------------------------------------------
(* Accounting *)

ComResultado(S, r) == Cardinality({f \in S : f \in DOMAIN hist.resultado
                                               /\ hist.resultado[f] = r})

Conjunto(seq) == {seq[i] : i \in 1..Len(seq)}

\* C1: when processar_todos has finished, every discovered file is counted
\* exactly once: the four outcome counters add up to total_arquivos, and each
\* counter equals the number of files that ended that way (optimized images,
\* optimized videos, skipped files, failed files), whatever the interleaving
\* of the workers.
C1_CadaArquivoContadoUmaVez ==
    fase = "fim" =>
        /\ estatisticas.imagens_otimizadas + estatisticas.videos_otimizados
             + estatisticas.arquivos_ignorados + estatisticas.erros
           = estatisticas.total_arquivos
        /\ estatisticas.imagens_otimizadas = ComResultado(Conjunto(imagens), "otimizado")
        /\ estatisticas.videos_otimizados = ComResultado(Conjunto(videos), "otimizado")
        /\ estatisticas.arquivos_ignorados = ComResultado(DOMAIN tarefa, "ignorado")
        /\ estatisticas.erros = ComResultado(DOMAIN tarefa, "erro")

\* C2: in every state, tamanho_original - tamanho_final = espaco_economizado,
\* and the two size totals are the sums of the original and final sizes of
\* exactly the files recorded as optimized.
C2_EconomiaExata ==
    /\ estatisticas.tamanho_original - estatisticas.tamanho_final
         = estatisticas.espaco_economizado
    /\ estatisticas.tamanho_original = hist.somas.o
    /\ estatisticas.tamanho_final = hist.somas.f

----------------------------------------------------------------------------
(* Backup before write *)

\* the worker of f has written, or is at the point of writing, f's
\* destination or temp path
EscreveSaida(f) ==
    \/ f \in hist.escritos
    \/ tarefa[f].pc \in {"salvar", "ffmpeg", "mover"}

SidecarsNaOrigem(f) ==
    {i \in 1..Len(SidecarExts) : ComSidecar(f, SidecarExts[i]) \in DOMAIN fs}

SidecarsNoBackup(f) ==
    {i \in 1..Len(SidecarExts) : ComSidecar(CaminhoBackup(f), SidecarExts[i]) \in DOMAIN fs}

\* C3 as stated: with backup enabled, whenever a file's destination or temp
\* path has been or is being written, the backup tree holds the copy of the
\* original and of every sidecar the source has.
C3_BackupESidecarsAntes ==
    pasta_backup # None =>
        \A f \in DOMAIN tarefa :
            EscreveSaida(f) =>
                /\ CaminhoBackup(f) \in DOMAIN fs
                /\ SidecarsNaOrigem(f) \subseteq SidecarsNoBackup(f)

\* C3 as amended: with backup enabled, whenever a file's destination or temp
\* path has been or is being written, the backup tree holds the copy of the
\* original, with the original's content.  (The sidecar copy is best effort:
\* when it fails the transform goes on.)
C3_BackupAntesDaEscrita ==
    pasta_backup # None =>
        \A f \in DOMAIN tarefa :
            EscreveSaida(f) =>
                /\ CaminhoBackup(f) \in DOMAIN fs
                /\ f \in DOMAIN fs => fs[CaminhoBackup(f)] = fs[f]

\* a destination was written for a file whose sidecar did not reach the backup
C3_Testemunha ==
    /\ pasta_backup # None
    /\ \E f \in hist.escritos :
          /\ CaminhoBackup(f) \in DOMAIN fs
          /\ SidecarsNaOrigem(f) # {}
          /\ ~(SidecarsNaOrigem(f) \subseteq SidecarsNoBackup(f))

----------------------------------------------------------------------------
(* Failed videos *)

\* C4: when the run has finished, a video whose transform failed (transcoder
\* error, missing temp output, failed unlink or rename) has no file at its
\* temp path and no file at its destination path, whatever the output tree
\* held before the run; and when it is the only failed file of the run, erros
\* is 1.
C4_FalhaNaoDeixaArquivo ==
    fase = "fim" =>
        /\ \A f \in Conjunto(videos) :
              (/\ hist.resultado[f] = "erro"
               /\ hist.causa[f] \in {"ffmpeg", "sem_temp", "unlink", "rename"}) =>
                  /\ CaminhoSaida(f) \notin DOMAIN fs
                  /\ TempDe(CaminhoSaida(f)) \notin DOMAIN fs
        /\ ComResultado(DOMAIN tarefa, "erro") = 1 => estatisticas.erros = 1

----------------------------------------------------------------------------
(* One worker invocation per file *)

SemRepeticao(seq) == \A i, j \in 1..Len(seq) : seq[i] = seq[j] => i = j

\* C5: every media file under the input root is in exactly one of the two
\* sequences, once; no file's transform is started more than once; and when
\* the run has finished every discovered file's transform was started exactly
\* once.
C5_UmaInvocacaoPorArquivo ==
    /\ Conjunto(imagens) \cap Conjunto(videos) = {}
    /\ SemRepeticao(imagens)
    /\ SemRepeticao(videos)
    /\ \A f \in DOMAIN hist.iniciados : hist.iniciados[f] <= 1
    /\ fase \in {"imagens", "videos", "fim"} =>
          DOMAIN hist.iniciados = Conjunto(imagens) \cup Conjunto(videos)
    /\ fase = "fim" => \A f \in DOMAIN hist.iniciados : hist.iniciados[f] = 1

\* a finished run in which .jpg was listed as image and as video extension
C5_Testemunha ==
    /\ fase = "fim"
    /\ ".jpg" \in Cfg("geral", "extensoes_imagem") \cap Cfg("geral", "extensoes_video")
    /\ \E f \in Conjunto(imagens) : Suffix(f) = ".jpg" /\ hist.iniciados[f] = 1
    /\ videos # <<>>

----------------------------------------------------------------------------
(* Idempotence *)

\* C6: a complete run after a complete run with the same configuration, the
\* output root emptied in between and no failure in either, leaves the same
\* output files (same names, same content) as the first.
C6_MesmaSaida ==
    (/\ fase = "fim"
     /\ hist.anterior.houve
     /\ hist.anterior.completa
     /\ hist.anterior.esvaziada
     /\ hist.falhas = 0
     /\ hist.anterior.pasta_saida = pasta_saida
     /\ hist.anterior.pasta_backup = pasta_backup
     /\ hist.anterior.dicts = dicts)
    => Saidas(fs, pasta_saida) = hist.anterior.saidas

----------------------------------------------------------------------------
(* Interrupt *)

\* C7: once the interrupt has arrived no transform is started; and when the
\* process has exited, no transcode that was running at the interrupt has
\* gone on to record its video as optimized, and none of them has left its
\* temp file in the output tree.
C7_InterrupcaoLimpa ==
    /\ hist.apos = {}
    /\ fase = "saiu" =>
          \A f \in hist.em_voo :
              /\ hist.resultado[f] # "otimizado"
              /\ TempDe(CaminhoSaida(f)) \notin DOMAIN fs

----------------------------------------------------------------------------
(* Failures *)

\* C8: the step that completes a failed transform adds exactly 1 to erros and
\* changes no other entry of estatisticas; and the run ends only when every
\* discovered file has been processed.
C8_FalhaContida ==
    [][/\ \A f \in DOMAIN tarefa :
            (tarefa[f].pc = "gravar_erro" /\ f \in DOMAIN tarefa'
                /\ tarefa'[f].pc = "fim")
            => estatisticas' = [estatisticas EXCEPT !.erros = @ + 1]
       /\ fase' = "fim" =>
            \A f \in DOMAIN hist'.resultado : hist'.resultado[f] # "nenhum"]_vars

----------------------------------------------------------------------------
(* Termination and the report *)

C9_Seguranca ==
    /\ relatorios <= 1
    /\ relatorios = 1 =>
          /\ fase = "fim"
          /\ estatisticas.total_arquivos > 0
          /\ \A f \in DOMAIN tarefa : tarefa[f].pc = "fim" /\ hist.iniciados[f] = 1
    /\ fase = "fim" => relatorios = 1
    /\ fase = "retornou" =>
          /\ relatorios = 0
          /\ estatisticas.total_arquivos = 0
          /\ \A f \in DOMAIN hist.iniciados : hist.iniciados[f] = 0

\* C9: a run whose discovery found a file ends, unless it is interrupted, with
\* the report written; the report is written at most once per run and only
\* when every discovered file's transform has finished; a run whose discovery
\* found nothing writes no report and starts no transform.
C9_RelatorioUmaVez ==
    /\ []C9_Seguranca
    /\ (fase = "imagens") ~> (relatorios = 1 \/ interrompido)

\* the report of a run in which a file failed and a file was skipped
C9_Testemunha ==
    /\ fase = "fim"
    /\ relatorios = 1
    /\ ComResultado(DOMAIN tarefa, "erro") >= 1
    /\ ComResultado(DOMAIN tarefa, "ignorado") >= 1

----------------------------------------------------------------------------
(* No state shared between instances *)

\* C10: constructing an instance leaves the inner dicts of CONFIGURACOES as
\* the module defines them, so that every later instance starts from the
\* documented defaults; and every instance starts with its counters at 0.
C10_PadroesIntactos ==
    /\ dicts = DictsPadrao
    /\ fase = "construido" => estatisticas = EstatisticasIniciais

----------------------------------------------------------------------------
(* Skipping small files *)

\* the skip condition: the option of the running phase is on and the size is
\* strictly below the threshold in bytes
AbaixoDoLimite(f) ==
    IF fase = "imagens"
    THEN Cfg("imagens", "ignorar_pequenas")
         /\ fs[f].tam < Cfg("imagens", "tamanho_minimo_kb") * 1024
    ELSE Cfg("videos", "ignorar_pequenos")
         /\ fs[f].tam < Cfg("videos", "tamanho_minimo_mb") * 1024 * 1024

\* C11: a file's transform takes the skip branch exactly when the option is on
\* and its size is strictly below the threshold; the skip writes no file, and
\* its completion adds exactly 1 to arquivos_ignorados and changes no other
\* entry of estatisticas.
C11_IgnorarSoConta ==
    [][\A f \in DOMAIN tarefa \cap DOMAIN tarefa' :
          /\ (tarefa[f].pc = "pendente" /\ tarefa'[f].pc # "pendente" /\ f \in DOMAIN fs)
             => /\ (tarefa'[f].pc = "gravar_ign") <=> AbaixoDoLimite(f)
                /\ tarefa'[f].pc = "gravar_ign"
                   => fs' = fs /\ estatisticas' = estatisticas
          /\ (tarefa[f].pc = "gravar_ign" /\ tarefa'[f].pc = "fim")
             => /\ fs' = fs
                /\ estatisticas' =
                      [estatisticas EXCEPT !.arquivos_ignorados = @ + 1]]_vars

----------------------------------------------------------------------------
(* Destination of an image *)

\* the destination the rule gives: output root + relative path, the extension
\* kept for .jpg/.jpeg and for an unconverted .png, .jpg otherwise
DestinoEsperado(f) ==
    LET base == [f EXCEPT !.dir = pasta_saida \o
                                  SubSeq(f.dir, Len(PastaEntrada) + 1, Len(f.dir))]
        e == Lower(f.ext)
    IN IF e \in {".jpg", ".jpeg"}
          \/ (e = ".png" /\ ~Cfg("imagens", "converter_png_para_jpg"))
       THEN base
       ELSE [base EXCEPT !.ext = ".jpg"]

\* the images whose encoded output has been saved
ImagensSalvas ==
    {f \in DOMAIN tarefa :
        /\ \E i \in 1..Len(imagens) : imagens[i] = f
        /\ \/ tarefa[f].pc \in {"ler_f", "ler_e", "ler_n", "gravar"}
           \/ hist.resultado[f] = "otimizado"}

\* C12: a saved image is at the destination the rule gives, and its sidecars
\* are at that destination's name with the sidecar suffix appended (all of the
\* source's, when no copy failed), never at the name with the original
\* extension when the extension was changed.
C12_DestinoDaImagem ==
    \A f \in ImagensSalvas :
        LET d == DestinoEsperado(f)
            original == [d EXCEPT !.ext = f.ext]
        IN /\ tarefa[f].saida = d
           /\ d \in DOMAIN fs
           /\ fs[d].enc
           /\ \A i \in 1..Len(SidecarExts) :
                 LET o == [f EXCEPT !.side = SidecarExts[i]]
                     c == [d EXCEPT !.side = SidecarExts[i]]
                 IN /\ c \in DOMAIN fs => o \in DOMAIN fs /\ fs[c] = fs[o]
                    /\ (hist.falhas = 0 /\ o \in DOMAIN fs) => c \in DOMAIN fs
                    /\ d # original =>
                          [original EXCEPT !.side = SidecarExts[i]] \notin DOMAIN fs

\* a .png converted to .jpg, recorded as optimized, with both sidecars copied
C12_Testemunha ==
    \E f \in ImagensSalvas :
        /\ f.ext = ".png"
        /\ DestinoEsperado(f).ext = ".jpg"
        /\ hist.resultado[f] = "otimizado"
        /\ \A i \in 1..Len(SidecarExts) :
              [DestinoEsperado(f) EXCEPT !.side = SidecarExts[i]] \in DOMAIN fs

----------------------------------------------------------------------------
(* Sidecar copies *)

\* destino holds, after the step, a copy of each sidecar origem has and no
\* sidecar origem lacks, unless it held that sidecar before the step
SidecarsCopiados(origem, destino) ==
    \A i \in 1..Len(SidecarExts) :
        LET o == [origem EXCEPT !.side = SidecarExts[i]]
            d == [destino EXCEPT !.side = SidecarExts[i]]
        IN d \notin DOMAIN fs =>
              /\ (d \in DOMAIN fs') <=> (o \in DOMAIN fs)
              /\ d \in DOMAIN fs' => fs'[d] = fs[o]

\* C13: a step that copies a file's sidecars without failure, to the backup
\* tree (with the original) or to the output tree, leaves at the destination
\* exactly the sidecar conventions that exist at the source.
C13_SidecarsDaOrigem ==
    [][\A f \in DOMAIN tarefa \cap DOMAIN tarefa' :
          hist'.falhas = hist.falhas =>
             /\ (/\ tarefa[f].pc = "pendente"
                 /\ tarefa'[f].pc \in {"salvar", "ffmpeg"}
                 /\ pasta_backup # None)
                => LET b == [f EXCEPT !.dir = pasta_backup \o
                                 SubSeq(f.dir, Len(PastaEntrada) + 1, Len(f.dir))]
                   IN /\ b \in DOMAIN fs'
                      /\ fs'[b] = fs[f]
                      /\ SidecarsCopiados(f, b)
             /\ (tarefa[f].pc \in {"salvar", "mover"} /\ tarefa'[f].pc = "ler_f")
                => SidecarsCopiados(f, tarefa'[f].saida)]_vars

\* the backup of a video that has the long-form sidecar only: the original and
\* the long-form sidecar are in the backup tree, the short form is not
C13_Testemunha ==
    /\ pasta_backup # None
    /\ hist.falhas = 0
    /\ \E f \in DOMAIN tarefa :
          /\ tarefa[f].pc = "ffmpeg"
          /\ ComSidecar(f, ".supplemental-metadata.json") \in DOMAIN fs
          /\ ComSidecar(f, ".json") \notin DOMAIN fs
          /\ CaminhoBackup(f) \in DOMAIN fs
          /\ ComSidecar(CaminhoBackup(f), ".supplemental-metadata.json") \in DOMAIN fs
          /\ ComSidecar(CaminhoBackup(f), ".json") \notin DOMAIN fs

----------------------------------------------------------------------------
(* The percentage of the report *)

\* C14: the percentage the report shows is saved / original * 100 when the
\* total original size is greater than 0 and is 0 when it is 0; it is never
\* the outcome of a division by zero.
C14_Porcentagem ==
    fase = "fim" =>
        LET original == estatisticas.tamanho_original
            economia == estatisticas.espaco_economizado
            g == Mdc(Abs(economia * 100), original)
            porcentagem == PorcentagemReducao(estatisticas)
        IN /\ porcentagem.den # 0
           /\ original > 0 =>
                 /\ porcentagem.num = (economia * 100) \div g
                 /\ porcentagem.den = original \div g
           /\ original = 0 => porcentagem.num = 0

\* the report of a run in which every file was skipped or failed
C14_Testemunha ==
    /\ fase = "fim"
    /\ estatisticas.total_arquivos > 0
    /\ estatisticas.tamanho_original = 0
    /\ estatisticas.arquivos_ignorados >= 1
    /\ PorcentagemReducao(estatisticas).num = 0

----------------------------------------------------------------------------
(* The two phases *)

\* the transform of f has returned: optimized, skipped or failed
Acabou(f) == tarefa[f].pc = "fim" /\ hist.resultado[f] # "nenhum"

\* C15: when a video's transform has been started, every image's transform
\* has finished; when the end time is stored or the report written, every
\* file's transform has finished.
C15_FasesSeparadas ==
    /\ \A v \in DOMAIN tarefa :
          ((\E i \in 1..Len(videos) : videos[i] = v) /\ tarefa[v].pc # "pendente")
          => \A j \in 1..Len(imagens) : Acabou(imagens[j])
    /\ (estatisticas.fim # 0 \/ relatorios > 0) => \A f \in DOMAIN tarefa : Acabou(f)

\* a video's transform running after the images of the run, one of them
\* failed, have all finished
C15_Testemunha ==
    /\ Len(imagens) >= 2
    /\ \E j \in 1..Len(imagens) : hist.resultado[imagens[j]] = "erro"
    /\ \E i \in 1..Len(videos) : tarefa[videos[i]].pc = "ffmpeg"

----------------------------------------------------------------------------
(* The worker count *)

\* C16: the transforms in progress, and so the transcoders running, are never
\* more than geral.processos.
C16_LimiteDeWorkers ==
    /\ Cardinality(EmAndamento) <= Cfg("geral", "processos")
    /\ Cardinality({f \in DOMAIN tarefa : tarefa[f].pc = "ffmpeg"})
          <= Cfg("geral", "processos")

\* every worker busy while a work item waits
C16_Testemunha ==
    /\ fila # <<>>
    /\ Cardinality(EmAndamento) = Cfg("geral", "processos")

----------------------------------------------------------------------------
(* The rename of the transcoder's output *)

\* C17: a step puts a file at a video's destination only by renaming its temp
\* file, which exists and is not empty; and a transcode that left no temp
\* file or an empty one goes to the failure handler with nothing at the
\* destination.
C17_SoPorRename ==
    [][\A v \in DOMAIN tarefa \cap DOMAIN tarefa' :
          (\E i \in 1..Len(videos) : videos[i] = v) =>
             LET d == CaminhoSaida(v)
                 t == TempDe(d)
             IN /\ (d \in DOMAIN fs' /\ (d \notin DOMAIN fs \/ fs'[d] # fs[d]))
                   => /\ tarefa[v].pc = "mover"
                      /\ t \in DOMAIN fs
                      /\ fs[t].tam > 0
                      /\ fs'[d] = fs[t]
                      /\ t \notin DOMAIN fs'
                /\ (/\ tarefa[v].pc = "mover"
                    /\ tarefa'[v].pc # "mover"
                    /\ (t \notin DOMAIN fs \/ fs[t].tam = 0))
                   => /\ tarefa'[v].pc = "gravar_erro"
                      /\ d \notin DOMAIN fs']_vars

----------------------------------------------------------------------------
(* Discovery *)

\* the name of p ends in .json or .metadata, in any letter case
NomeDeSidecar(p) ==
    \/ p.side # ""
    \/ Lower(p.ext) \in {".json", ".metadata"}

\* C18: discovery puts no file whose name ends in .json or .metadata in a
\* sequence; any other file under the input root is in the image sequence
\* iff its lower-cased extension is in the image set, and in the video
\* sequence iff it is in the video set and not in the image set; the three
\* total counters are the lengths of the sequences, and no later step of the
\* run changes them.
C18_Classificacao ==
    [][/\ (fase = "construido" /\ fase' # "construido") =>
             /\ \A p \in DOMAIN fs :
                   LET e == Lower(p.ext)
                       img == {Lower(x) : x \in Cfg("geral", "extensoes_imagem")}
                       vid == {Lower(x) : x \in Cfg("geral", "extensoes_video")}
                       naImagens == \E i \in 1..Len(imagens') : imagens'[i] = p
                       nosVideos == \E i \in 1..Len(videos') : videos'[i] = p
                   IN IF ~IsPrefix(PastaEntrada, p.dir) \/ NomeDeSidecar(p)
                      THEN ~naImagens /\ ~nosVideos
                      ELSE /\ naImagens <=> e \in img
                           /\ nosVideos <=> (e \in vid /\ e \notin img)
             /\ Conjunto(imagens') \cup Conjunto(videos') \subseteq DOMAIN fs
             /\ estatisticas'.total_imagens = Len(imagens')
             /\ estatisticas'.total_videos = Len(videos')
             /\ estatisticas'.total_arquivos = Len(imagens') + Len(videos')
       /\ (fase \notin {"inicio", "construido"} /\ fase' # "inicio") =>
             /\ estatisticas'.total_imagens = estatisticas.total_imagens
             /\ estatisticas'.total_videos = estatisticas.total_videos
             /\ estatisticas'.total_arquivos = estatisticas.total_arquivos
             /\ imagens' = imagens
             /\ videos' = videos]_vars

\* a finished run on a tree with an upper-case extension and sidecars, .jpg
\* and .json configured as video extensions too: three images, one video
C18_Testemunha ==
    /\ fase = "fim"
    /\ \E x \in Cfg("geral", "extensoes_video") : NomeDeSidecar([a_jpg EXCEPT !.ext = x])
    /\ \E p \in DOMAIN fs : IsPrefix(PastaEntrada, p.dir) /\ NomeDeSidecar(p)
    /\ \E i \in 1..Len(imagens) : imagens[i].ext = ".JPG"
    /\ estatisticas.total_imagens = 3
    /\ estatisticas.total_videos = 1
    /\ estatisticas.total_arquivos = 4

----------------------------------------------------------------------------
(* Sidecar failures *)

\* C19: a file one of whose sidecar copies failed, and nothing else, never
\* enters the failure handler and is not skipped; once its transform has
\* returned it is recorded as optimized.
C19_FalhaDeSidecarNaoConta ==
    \A f \in hist.sidecar :
        hist.causa[f] = "nenhuma" =>
            /\ tarefa[f].pc \notin {"gravar_erro", "gravar_ign"}
            /\ hist.resultado[f] \in {"nenhum", "otimizado"}
            /\ tarefa[f].pc = "fim" => hist.resultado[f] = "otimizado"
            /\ tarefa[f].pc \in {"ler_f", "ler_e", "ler_n", "gravar", "fim"}
                  => tarefa[f].saida \in DOMAIN fs

\* a finished run with a file optimized although a sidecar copy failed, and no
\* error counted
C19_Testemunha ==
    /\ fase = "fim"
    /\ estatisticas.erros = 0
    /\ \E f \in hist.sidecar :
          /\ hist.resultado[f] = "otimizado"
          /\ \E i \in 1..Len(SidecarExts) :
                /\ ComSidecar(f, SidecarExts[i]) \in DOMAIN fs
                /\ ComSidecar(tarefa[f].saida, SidecarExts[i]) \notin DOMAIN fs

----------------------------------------------------------------------------
(* Distinct destinations *)

\* C20: no two distinct files whose transforms wrote an output in this run
\* have the same destination path, and no file's temp path is the
\* destination path of another.
C20_DestinosDistintos ==
    \A f \in hist.escritos : \A g \in hist.escritos :
        f # g =>
            /\ tarefa[f].saida # tarefa[g].saida
            /\ TempDe(tarefa[f].saida) # tarefa[g].saida

----------------------------------------------------------------------------
(* Savings *)

\* C21: the output of a file on its way to be counted as optimized is not
\* larger than its original; espaco_economizado is never negative and
\* tamanho_final never exceeds tamanho_original; and no step of a run lowers
\* espaco_economizado.
C21_EconomiaNaoNegativa ==
    [][/\ \A f \in DOMAIN tarefa' :
             tarefa'[f].pc \in {"ler_f", "ler_e", "ler_n", "gravar"}
             => tarefa'[f].tn <= tarefa'[f].to
       /\ estatisticas'.espaco_economizado >= 0
       /\ estatisticas'.tamanho_final <= estatisticas'.tamanho_original
       /\ fase' # "inicio" =>
             estatisticas'.espaco_economizado >= estatisticas.espaco_economizado]_vars

====
